---------------------------- MODULE Spec2Model ----------------------------
(***************************************************************************)
(* A model of haiku_tweeter.py: the syllable counter, the noise filter,    *)
(* the sliding-window haiku detector, the signature, the tweet composer,   *)
(* the SQLite cache (table haikus) and the scan / tweet commands.          *)
(*                                                                         *)
(* A Python str is a sequence of characters; a character is a one-letter   *)
(* string, except the two non-ASCII code points the model uses, which are  *)
(* named (EmDash, EAcute).  Len is Python's len.                           *)
(***************************************************************************)
EXTENDS Integers, Sequences, FiniteSets, TLC

\* ------------------------------------------------------------------------
\* Characters and the str methods the program uses
\* ------------------------------------------------------------------------

LF == "\n"
CR == "\r"
SP == " "
\* U+2014, one code point
EmDash == "emdash"
\* U+00E9, one code point
EAcute == "e_acute"

LowerLetters ==
  <<"a","b","c","d","e","f","g","h","i","j","k","l","m",
    "n","o","p","q","r","s","t","u","v","w","x","y","z">>

UpperLetters ==
  <<"A","B","C","D","E","F","G","H","I","J","K","L","M",
    "N","O","P","Q","R","S","T","U","V","W","X","Y","Z">>

\* upper-case letter -> lower-case letter
ToLower == [c \in {UpperLetters[i] : i \in 1..26} |->
              LowerLetters[CHOOSE i \in 1..26 : UpperLetters[i] = c]]

\* str.lower() on one character (ASCII letters; other model characters are caseless)
LowerChar(c) == IF c \in DOMAIN ToLower THEN ToLower[c] ELSE c

\* str.lower()
Lower(s) == [i \in 1..Len(s) |-> LowerChar(s[i])]

\* the characters str.strip() removes and \s matches
Whitespace == {SP, "\t", LF, CR}

\* str.strip()
Strip(s) ==
  IF \A i \in 1..Len(s) : s[i] \in Whitespace THEN <<>>
  ELSE LET lo == CHOOSE i \in 1..Len(s) :
                   s[i] \notin Whitespace /\ \A j \in 1..(i-1) : s[j] \in Whitespace
           hi == CHOOSE i \in 1..Len(s) :
                   s[i] \notin Whitespace /\ \A j \in (i+1)..Len(s) : s[j] \in Whitespace
       IN  SubSeq(s, lo, hi)

\* the k-th smallest element of a set of integers
Kth(I, k) == CHOOSE i \in I : Cardinality({j \in I : j <= i}) = k

\* the characters of s at the positions in I, in order
Pick(s, I) == [k \in 1..Cardinality(I) |-> s[Kth(I, k)]]

\* the characters of s that are in keepSet, in order (re.sub of the others to "")
FilterChars(s, keepSet) == Pick(s, {i \in 1..Len(s) : s[i] \in keepSet})

\* s.replace("\r\n", "\n"), halving s so that the recursion stays shallow
RECURSIVE ReplaceCRLF(_)
ReplaceCRLF(s) ==
  IF Len(s) <= 1 THEN s
  ELSE LET mid == Len(s) \div 2
       IN  IF s[mid] = CR /\ s[mid+1] = LF
           THEN ReplaceCRLF(SubSeq(s, 1, mid-1)) \o <<LF>>
                  \o ReplaceCRLF(SubSeq(s, mid+2, Len(s)))
           ELSE ReplaceCRLF(SubSeq(s, 1, mid)) \o ReplaceCRLF(SubSeq(s, mid+1, Len(s)))

\* s.replace("\r", "\n")
ReplaceCR(s) == [i \in 1..Len(s) |-> IF s[i] = CR THEN LF ELSE s[i]]

\* lyrics.replace("\r\n", "\n").replace("\r", "\n")
NormaliseNewlines(s) == ReplaceCR(ReplaceCRLF(s))

\* str.split("\n"): the pieces between the LFs, empty pieces kept
RECURSIVE SplitLines(_)
SplitLines(s) ==
  IF \A i \in 1..Len(s) : s[i] # LF THEN <<s>>
  ELSE LET k == CHOOSE i \in 1..Len(s) : s[i] = LF /\ \A j \in 1..(i-1) : s[j] # LF
       IN  <<SubSeq(s, 1, k-1)>> \o SplitLines(SubSeq(s, k+1, Len(s)))

\* "\n".join(lines)
RECURSIVE JoinLines(_)
JoinLines(ls) ==
  IF ls = <<>> THEN <<>>
  ELSE IF Len(ls) = 1 THEN ls[1]
       ELSE ls[1] \o <<LF>> \o JoinLines(Tail(ls))

\* ------------------------------------------------------------------------
\* Syllable counting
\* ------------------------------------------------------------------------

VOWELS == {"a","e","i","o","u","y"}

LetterSet == {LowerLetters[i] : i \in 1..26}

\* the special-case table of count_syllables_in_word
special ==
  [w \in { <<"q","u","e","u","e">>, <<"p","e","o","p","l","e">>,
           <<"c","h","o","i","r">>, <<"h","o","u","r">>, <<"o","u","r">>,
           <<"f","i","r","e">>, <<"o","n","e">>, <<"t","w","o">>,
           <<"o","n","c","e">>, <<"b","l","o","o","d">>,
           <<"b","r","e","a","t","h","e">>, <<"b","r","e","a","t","h","e","d">>,
           <<"e","v","e","r","y">>, <<"e","v","e","n">>, <<"e","v","e","r">>,
           <<"b","u","s","i","n","e","s","s">>, <<"f","a","m","i","l","y">>,
           <<"p","o","e","m">>, <<"p","o","e","t">>, <<"q","u","i","e","t">>,
           <<"q","u","i","e","t","l","y">>, <<"s","c","i","e","n","c","e">>,
           <<"g","i","a","n","t">> } |->
     CASE w = <<"p","e","o","p","l","e">> -> 2
       [] w = <<"e","v","e","r","y">> -> 2
       [] w = <<"e","v","e","n">> -> 2
       [] w = <<"e","v","e","r">> -> 2
       [] w = <<"b","u","s","i","n","e","s","s">> -> 2
       [] w = <<"f","a","m","i","l","y">> -> 3
       [] w = <<"p","o","e","m">> -> 2
       [] w = <<"p","o","e","t">> -> 2
       [] w = <<"q","u","i","e","t">> -> 2
       [] w = <<"q","u","i","e","t","l","y">> -> 3
       [] w = <<"s","c","i","e","n","c","e">> -> 2
       [] w = <<"g","i","a","n","t">> -> 2
       [] OTHER -> 1]

\* len(re.findall(r"[aeiouy]+", w)): the number of maximal runs of vowels
VowelGroups(w) ==
  Cardinality({i \in 1..Len(w) : w[i] \in VOWELS /\ (i = 1 \/ w[i-1] \notin VOWELS)})

\* w.endswith(suffix)
EndsWith(w, suffix) ==
  Len(w) >= Len(suffix) /\ SubSeq(w, Len(w) - Len(suffix) + 1, Len(w)) = suffix

Max(a, b) == IF a >= b THEN a ELSE b

\* the lines after the special-case lookup: vowel groups, silent e, consonant + le
HeuristicSyllables(w) ==
  LET groups == VowelGroups(w)
      afterE == IF EndsWith(w, <<"e">>) /\ ~EndsWith(w, <<"l","e">>)
                   /\ ~EndsWith(w, <<"y","e">>) /\ groups > 1
                THEN groups - 1 ELSE groups
      afterLe == IF EndsWith(w, <<"l","e">>) /\ Len(w) > 2 /\ w[Len(w)-2] \notin VOWELS
                 THEN afterE + 1 ELSE afterE
  IN  Max(1, afterLe)

count_syllables_in_word(word) ==
  LET w == FilterChars(Lower(word), LetterSet)
  IN  IF w = <<>> THEN 0
      ELSE IF w \in DOMAIN special THEN special[w]
      ELSE HeuristicSyllables(w)

\* re.sub(r"[\[\(].*?[\]\)]", "", line): from each opening bracket to the nearest
\* closing bracket after it (of either kind), scanning left to right; '.' does
\* not match a line feed
Openers == {"[", "("}

Closers == {"]", ")"}

RECURSIVE RemoveAnnotations(_)
RemoveAnnotations(s) ==
  IF s = <<>> THEN <<>>
  ELSE LET ends == {j \in 2..Len(s) : s[j] \in Closers
                                      /\ \A k \in 2..(j-1) : s[k] # LF}
       IN  IF Head(s) \in Openers /\ ends # {}
           THEN LET j == CHOOSE e \in ends : \A f \in ends : e <= f
                IN  RemoveAnnotations(SubSeq(s, j+1, Len(s)))
           ELSE <<Head(s)>> \o RemoveAnnotations(Tail(s))

\* unidecode(line): ASCII stays, an accented letter becomes its base letter
unidecode(s) == [i \in 1..Len(s) |-> IF s[i] = EAcute THEN "e" ELSE s[i]]

\* the characters of the class [A-Za-z']
WordChars == LetterSet \cup {UpperLetters[i] : i \in 1..26} \cup {"'"}

\* re.findall(r"[A-Za-z']+", line): the maximal runs of word characters, in order
RECURSIVE FindWords(_)
FindWords(s) ==
  IF s = <<>> THEN <<>>
  ELSE IF Head(s) \notin WordChars THEN FindWords(Tail(s))
  ELSE LET stops == {i \in 1..Len(s) : s[i] \notin WordChars}
           n == IF stops = {} THEN Len(s)
                ELSE (CHOOSE i \in stops : \A j \in stops : i <= j) - 1
       IN  <<SubSeq(s, 1, n)>> \o FindWords(SubSeq(s, n+1, Len(s)))

RECURSIVE SumSyllables(_)
SumSyllables(ws) ==
  IF ws = <<>> THEN 0
  ELSE count_syllables_in_word(Head(ws)) + SumSyllables(Tail(ws))

count_syllables_in_line(line) ==
  SumSyllables(FindWords(unidecode(RemoveAnnotations(line))))

\* ------------------------------------------------------------------------
\* Noise lines
\* ------------------------------------------------------------------------

\* the alternatives of group 1 of the filler pattern: la|na|o+h|yeah|ya|uh
IsFillerToken(t) ==
  \/ t \in { <<"l","a">>, <<"n","a">>, <<"y","e","a","h">>, <<"y","a">>, <<"u","h">> }
  \/ Len(t) >= 2 /\ t[Len(t)] = "h" /\ \A i \in 1..(Len(t)-1) : t[i] = "o"

\* the separator class [ ,\-!?.]
FillerSeps == {SP, ",", "-", "!", "?", "."}

\* s[1..p] is a concatenation of filler tokens (zero or more)
RECURSIVE TokenPrefix(_, _)
TokenPrefix(s, p) ==
  \/ p = 0
  \/ \E k \in 0..(p-1) : IsFillerToken(SubSeq(s, k+1, p)) /\ TokenPrefix(s, k)

\* s[p+1..] matches ([ ,\-!?.]*\1)* with group 1 holding t
RECURSIVE BackrefTail(_, _, _)
BackrefTail(s, p, t) ==
  \/ p = Len(s)
  \/ \E m \in 0..(Len(s) - p) :
        /\ \A i \in (p+1)..(p+m) : s[i] \in FillerSeps
        /\ p + m + Len(t) <= Len(s)
        /\ SubSeq(s, p+m+1, p+m+Len(t)) = t
        /\ BackrefTail(s, p + m + Len(t), t)

\* re.fullmatch(r"(la|na|o+h|yeah|ya|uh)+([ ,\-!?.]*\1)*", s): group 1 repeated,
\* its last repetition captured, then separators and the captured text again
FillerMatch(s) ==
  \E j \in 1..Len(s) : \E k \in 0..(j-1) :
     /\ IsFillerToken(SubSeq(s, k+1, j))
     /\ TokenPrefix(s, k)
     /\ BackrefTail(s, j, SubSeq(s, k+1, j))

\* re.search(r"^\s*[\[\(].*?[\]\)]\s*$", line): between optional whitespace, an
\* opening bracket, anything without a line feed, a closing bracket
StageCueMatch(line) ==
  LET t == Strip(line)
  IN  /\ Len(t) >= 2
      /\ t[1] \in Openers
      /\ t[Len(t)] \in Closers
      /\ \A i \in 2..(Len(t)-1) : t[i] # LF

is_noise_line(line) ==
  \/ Strip(line) = <<>>
  \/ StageCueMatch(line)
  \/ FillerMatch(Lower(Strip(line)))

\* ------------------------------------------------------------------------
\* Haiku and detection
\* ------------------------------------------------------------------------

\* the dataclass Haiku
Haiku(title, artist, lines, syllables) ==
  [title |-> title, artist |-> artist, lines |-> lines, syllables |-> syllables]

\* Haiku.text
text(h) == JoinLines(h.lines)

\* signature without .lower()
signature_case_sensitive(h) ==
  Strip(h.title) \o Strip(h.artist) \o Strip(JoinLines(h.lines))

\* Haiku.signature: sha256 over the three updates, that is over their
\* concatenation.  The digest is taken to be injective, so it is its input.
signature(h) ==
  Lower(Strip(h.title)) \o Lower(Strip(h.artist)) \o Lower(Strip(text(h)))

\* [ln for ln in raw_lines if not is_noise_line(ln)]
RECURSIVE ContentLines(_)
ContentLines(raw) ==
  IF raw = <<>> THEN <<>>
  ELSE IF is_noise_line(Head(raw)) THEN ContentLines(Tail(raw))
       ELSE <<Head(raw)>> \o ContentLines(Tail(raw))

\* the loop of find_haikus_in_lyrics from index i (1-based) on
RECURSIVE Windows(_, _, _, _)
Windows(title, artist, lines, i) ==
  IF i > Len(lines) - 2 THEN <<>>
  ELSE LET triplet == SubSeq(lines, i, i+2)
           sylls == [k \in 1..3 |-> count_syllables_in_line(triplet[k])]
       IN  (IF sylls = <<5, 7, 5>>
            THEN <<Haiku(title, artist, triplet, sylls)>> ELSE <<>>)
           \o Windows(title, artist, lines, i+1)

\* find_haikus_in_lyrics with the window slid over raw_lines, noise lines included
find_haikus_unfiltered(title, artist, lyrics) ==
  LET split == SplitLines(NormaliseNewlines(lyrics))
      raw_lines == [i \in 1..Len(split) |-> Strip(split[i])]
  IN  Windows(title, artist, raw_lines, 1)

find_haikus_in_lyrics(title, artist, lyrics) ==
  LET split == SplitLines(NormaliseNewlines(lyrics))
      raw_lines == [i \in 1..Len(split) |-> Strip(split[i])]
  IN  Windows(title, artist, ContentLines(raw_lines), 1)

\* ------------------------------------------------------------------------
\* Tweet text
\* ------------------------------------------------------------------------

\* the limit compose_tweet_text tests against and truncates to
TweetLimit == 280

Min(a, b) == IF a <= b THEN a ELSE b

\* the slice s[:n]
Prefix(s, n) == SubSeq(s, 1, Min(n, Len(s)))

\* compose_tweet_text with "<" for "<="
compose_tweet_text_strict(h, include_attribution) ==
  LET body == Strip(text(h))
      candidate == body \o <<LF, LF, EmDash, SP>> \o h.title
                        \o <<SP, "b", "y", SP>> \o h.artist
      candidate2 == body \o <<LF, LF, EmDash, SP>> \o h.title
  IN  IF include_attribution /\ Len(candidate) < TweetLimit THEN candidate
      ELSE IF include_attribution /\ Len(candidate2) < TweetLimit THEN candidate2
      ELSE Prefix(body, TweetLimit)

compose_tweet_text(h, include_attribution) ==
  LET body == Strip(text(h))
      attribution == <<LF, LF, EmDash, SP>> \o h.title \o <<SP, "b", "y", SP>> \o h.artist
      candidate == body \o attribution
      candidate2 == body \o <<LF, LF, EmDash, SP>> \o h.title
  IN  IF include_attribution /\ Len(candidate) <= TweetLimit THEN candidate
      ELSE IF include_attribution /\ Len(candidate2) <= TweetLimit THEN candidate2
      ELSE Prefix(body, TweetLimit)

\* ------------------------------------------------------------------------
\* Storage: the table haikus, a sequence of rows in id order
\* ------------------------------------------------------------------------

\* SQL NULL in column tweeted_at; a set value is <<timestamp>>
NULL == <<>>

\* the row INSERT writes: tweeted_at is not among its columns, so it is NULL
NewRow(id, sig, h) ==
  [id |-> id, sig |-> sig, title |-> h.title, artist |-> h.artist,
   line1 |-> h.lines[1], line2 |-> h.lines[2], line3 |-> h.lines[3],
   s1 |-> h.syllables[1], s2 |-> h.syllables[2], s3 |-> h.syllables[3],
   tweeted_at |-> NULL]

\* cache_haiku with a plain INSERT into a table without the UNIQUE constraint
cache_haiku_plain_insert(st, h) == Append(st, NewRow(Len(st) + 1, signature(h), h))

\* cache_haiku with INSERT OR REPLACE: the row of that signature is written anew
cache_haiku_replace(st, h) ==
  LET sig == signature(h)
  IN  IF \E i \in 1..Len(st) : st[i].sig = sig
      THEN [i \in 1..Len(st) |-> IF st[i].sig = sig THEN NewRow(st[i].id, sig, h) ELSE st[i]]
      ELSE Append(st, NewRow(Len(st) + 1, sig, h))

\* INSERT OR IGNORE against sig TEXT UNIQUE; id INTEGER PRIMARY KEY AUTOINCREMENT
cache_haiku(st, h) ==
  LET sig == signature(h)
  IN  IF \E i \in 1..Len(st) : st[i].sig = sig THEN st
      ELSE Append(st, NewRow(Len(st) + 1, sig, h))

\* the Haiku load_one_unused_haiku builds from a selected row
RowHaiku(r) ==
  Haiku(r.title, r.artist, <<r.line1, r.line2, r.line3>>, <<r.s1, r.s2, r.s3>>)

\* the rows WHERE tweeted_at IS NULL; ORDER BY RANDOM() LIMIT 1 returns any one
UnusedRows(st) == {i \in 1..Len(st) : st[i].tweeted_at = NULL}

\* UPDATE haikus SET tweeted_at=? WHERE sig=?
mark_tweeted(st, h, now) ==
  LET sig == signature(h)
  IN  [i \in 1..Len(st) |->
         IF st[i].sig = sig THEN [st[i] EXCEPT !.tweeted_at = <<now>>] ELSE st[i]]

\* ------------------------------------------------------------------------
\* CSV scanning
\* ------------------------------------------------------------------------

UnknownTitle == <<"U","n","k","n","o","w","n",SP,"T","i","t","l","e">>

UnknownArtist == <<"U","n","k","n","o","w","n",SP,"A","r","t","i","s","t">>

\* row.get(key) or default
OrDefault(v, default) == IF v = <<>> THEN default ELSE v

\* the haikus one CSV row yields
RowHaikus(row) ==
  find_haikus_in_lyrics(OrDefault(row.title, UnknownTitle),
                        OrDefault(row.artist, UnknownArtist),
                        row.lyrics)

\* ------------------------------------------------------------------------
\* State
\* ------------------------------------------------------------------------

VARIABLES
  store,     \* the table haikus of haiku_cache.db
  clock,     \* datetime.now(): the next timestamp
  posted,    \* the publisher's side: signature -> tweets created for that haiku
  last,      \* history: the last command run; for a scan, the haikus it passed
             \* to cache_haiku (scan_csv returns their number) and whether the
             \* table changed
  pc,        \* per invocation of the tweet command: where it is in main
  sel,       \* per invocation: h, the haiku load_one_unused_haiku returned
  dry,       \* per invocation: keys["dry_run"]
  req,       \* per invocation: the create_tweet call in flight (text, credentials)
  arg,       \* the argument of the function a function specification applies
  ret,       \* its result
  returned   \* whether it has returned

vars == <<store, clock, posted, last, pc, sel, dry, req, arg, ret, returned>>

sysvars == <<store, clock, posted, last, pc, sel, dry, req>>

funvars == <<arg, ret, returned>>

\* concurrent invocations of the tweet command
NumProcs == 2

Procs == 1..NumProcs

\* rows per CSV file
MaxRows == 1

NoHaiku == <<>>

NoReq == <<>>

\* ------------------------------------------------------------------------
\* Inputs: lyric lines, lyrics, CSV rows and files
\* ------------------------------------------------------------------------

\* "a a a a a": five syllables
Line5 == <<"a",SP,"a",SP,"a",SP,"a",SP,"a">>

\* "I see a table, ay": seven syllables by the counter (table 3)
Line7 == <<"I",SP,"s","e","e",SP,"a",SP,"t","a","b","l","e",",",SP,"a","y">>

\* "o'er the table": five syllables by the counter (o'er 1, the 1, table 3)
Line5b == <<"o","'","e","r",SP,"t","h","e",SP,"t","a","b","l","e">>

\* a stage cue
LineCue == <<"[","C","h","o","r","u","s","]">>

\* Line7 in another case
Line7Caps == <<"I",SP,"S","E","E",SP,"a",SP,"T","a","b","l","e",",",SP,"a","y">>

\* two haikus that differ in letter case only
LyricsA ==
  Line5 \o <<LF>> \o Line7 \o <<LF>> \o Line5 \o <<LF>> \o Line7Caps \o <<LF>> \o Line5

\* two haikus in overlapping windows, a stage cue between content lines
LyricsB ==
  Line5 \o <<CR, LF>> \o LineCue \o <<LF>> \o Line7 \o <<LF>> \o Line5b
        \o <<LF>> \o Line7 \o <<CR>> \o Line5

RowPool ==
  { [title |-> <<"a","b">>,      artist |-> <<"c">>,     lyrics |-> LyricsA],
    [title |-> <<"a">>,          artist |-> <<"b","c">>, lyrics |-> LyricsA],
    [title |-> <<>>,             artist |-> <<"c">>,     lyrics |-> LyricsB] }

RECURSIVE SeqsUpTo(_, _)
SeqsUpTo(S, n) ==
  IF n = 0 THEN {<<>>}
  ELSE LET shorter == SeqsUpTo(S, n-1)
       IN  shorter \cup {Append(q, x) : q \in shorter, x \in S}

CsvFiles == SeqsUpTo(RowPool, MaxRows)

\* RowHaikus over the row pool, computed once
Detected == [row \in RowPool |-> RowHaikus(row)]

\* every haiku scan_csv passes to cache_haiku, in order (found counts them)
RECURSIVE FoundIn(_)
FoundIn(csv) ==
  IF csv = <<>> THEN <<>> ELSE Detected[Head(csv)] \o FoundIn(Tail(csv))

RECURSIVE CacheAll(_, _)
CacheAll(st, hs) ==
  IF hs = <<>> THEN st ELSE CacheAll(cache_haiku(st, Head(hs)), Tail(hs))

\* the table after scan_csv
scan_csv(st, csv) == CacheAll(st, FoundIn(csv))

\* the environment of one invocation: DRY_RUN, whether the four X_* credentials
\* are all set, whether tweepy imported, and --no-attrib
Environments ==
  [dry_run : BOOLEAN, credentials : BOOLEAN, tweepy : BOOLEAN, no_attrib : BOOLEAN]

\* ------------------------------------------------------------------------
\* The commands
\* ------------------------------------------------------------------------

SysInit ==
  /\ store = <<>>
  /\ clock = 1
  /\ posted = <<>>
  /\ last = [cmd |-> "none", found |-> <<>>, changed |-> FALSE]
  /\ pc = [p \in Procs |-> "idle"]
  /\ sel = [p \in Procs |-> NoHaiku]
  /\ dry = [p \in Procs |-> FALSE]
  /\ req = [p \in Procs |-> NoReq]

FunIdle == arg = <<>> /\ ret = <<>> /\ returned = FALSE

Init == SysInit /\ FunIdle

\* main, cmd == "scan", the CSV file missing: two prints and return
ScanMissing ==
  /\ last' = [cmd |-> "csv_not_found", found |-> <<>>, changed |-> FALSE]
  /\ UNCHANGED <<store, clock, posted, pc, sel, dry, req, funvars>>

\* main, cmd == "scan": scan_csv over the file
Scan ==
  \E csv \in CsvFiles :
    LET after == scan_csv(store, csv)
    IN  /\ store' = after
        /\ last' = [cmd |-> "scan", found |-> FoundIn(csv),
                    changed |-> after # store]
        /\ UNCHANGED <<clock, posted, pc, sel, dry, req, funvars>>

\* main, cmd == "tweet", up to the publish call: load_one_unused_haiku,
\* compose_tweet_text, load_keys, the dry-run branch's test, make_client
TweetSelect(p) ==
  /\ pc[p] = "idle"
  /\ last' = [cmd |-> "tweet", found |-> <<>>, changed |-> FALSE]
  /\ IF UnusedRows(store) = {}
     THEN /\ pc' = [pc EXCEPT ![p] = "no_haiku"]
          /\ UNCHANGED <<sel, dry, req>>
     ELSE \E i \in UnusedRows(store) : \E env \in Environments :
            LET h == RowHaiku(store[i])
                txt == compose_tweet_text(h, ~env.no_attrib)
            IN  IF env.dry_run
                THEN /\ pc' = [pc EXCEPT ![p] = "marking"]
                     /\ sel' = [sel EXCEPT ![p] = h]
                     /\ dry' = [dry EXCEPT ![p] = TRUE]
                     /\ UNCHANGED req
                ELSE IF ~env.tweepy
                THEN /\ pc' = [pc EXCEPT ![p] = "runtime_error"]
                     /\ UNCHANGED <<sel, dry, req>>
                ELSE /\ pc' = [pc EXCEPT ![p] = "posting"]
                     /\ sel' = [sel EXCEPT ![p] = h]
                     /\ req' = [req EXCEPT ![p] =
                                  [text |-> txt, credentials |-> env.credentials]]
                     /\ UNCHANGED dry
  /\ UNCHANGED <<store, clock, posted, funvars>>

\* posted with one more tweet for signature s
CountTweet(s) ==
  IF s \in DOMAIN posted THEN [posted EXCEPT ![s] = @ + 1] ELSE posted @@ (s :> 1)

\* post_tweet returns: create_tweet succeeded (the service accepts only a call
\* that carries credentials)
TweetPostOk(p) ==
  /\ pc[p] = "posting"
  /\ req[p].credentials
  /\ posted' = CountTweet(signature(sel[p]))
  /\ pc' = [pc EXCEPT ![p] = "marking"]
  /\ req' = [req EXCEPT ![p] = NoReq]
  /\ UNCHANGED <<store, clock, last, sel, dry, funvars>>

\* TweetPostFail with mark_tweeted in a finally clause
TweetPostFail_marks(p) ==
  /\ pc[p] = "posting"
  /\ store' = mark_tweeted(store, sel[p], clock)
  /\ clock' = clock + 1
  /\ pc' = [pc EXCEPT ![p] = "transport_error"]
  /\ sel' = [sel EXCEPT ![p] = NoHaiku]
  /\ req' = [req EXCEPT ![p] = NoReq]
  /\ UNCHANGED <<posted, last, dry, funvars>>

\* post_tweet raises (auth failure, network failure, rate limit): main does not
\* catch it, so mark_tweeted is not reached
TweetPostFail(p) ==
  /\ pc[p] = "posting"
  /\ pc' = [pc EXCEPT ![p] = "transport_error"]
  /\ sel' = [sel EXCEPT ![p] = NoHaiku]
  /\ req' = [req EXCEPT ![p] = NoReq]
  /\ UNCHANGED <<store, clock, posted, last, dry, funvars>>

\* mark_tweeted(h), after the dry-run print or after post_tweet returned
TweetMark(p) ==
  /\ pc[p] = "marking"
  /\ store' = mark_tweeted(store, sel[p], clock)
  /\ clock' = clock + 1
  /\ pc' = [pc EXCEPT ![p] = "done"]
  /\ sel' = [sel EXCEPT ![p] = NoHaiku]
  /\ dry' = [dry EXCEPT ![p] = FALSE]
  /\ UNCHANGED <<posted, last, req, funvars>>

\* the process ends; the next invocation starts from main again
TweetExit(p) ==
  /\ pc[p] \in {"no_haiku", "runtime_error", "transport_error", "done"}
  /\ pc' = [pc EXCEPT ![p] = "idle"]
  /\ UNCHANGED <<store, clock, posted, last, sel, dry, req, funvars>>

\* no invocation of the tweet command is running
AllIdle == \A q \in Procs : pc[q] = "idle"

\* the one invocation slot when invocations do not overlap
Sequential == {1}

\* invocations run one after the other
Next ==
  \/ AllIdle /\ ScanMissing
  \/ AllIdle /\ Scan
  \/ \E p \in Sequential :
       \/ AllIdle /\ TweetSelect(p)
       \/ TweetPostOk(p)
       \/ TweetPostFail(p)
       \/ TweetMark(p)
       \/ TweetExit(p)

Spec == Init /\ [][Next]_vars

\* a table one scan leaves
ConcInit ==
  /\ \E csv \in CsvFiles : store = scan_csv(<<>>, csv)
  /\ clock = 1
  /\ posted = <<>>
  /\ last = [cmd |-> "none", found |-> <<>>, changed |-> FALSE]
  /\ pc = [p \in Procs |-> "idle"]
  /\ sel = [p \in Procs |-> NoHaiku]
  /\ dry = [p \in Procs |-> FALSE]
  /\ req = [p \in Procs |-> NoReq]
  /\ FunIdle

\* invocations of the tweet command overlap: each of its database transactions
\* and its publish call is one step
NextConc ==
  \E p \in Procs :
    \/ TweetSelect(p)
    \/ TweetPostOk(p)
    \/ TweetPostFail(p)
    \/ TweetMark(p)
    \/ TweetExit(p)

SpecConc == ConcInit /\ [][NextConc]_vars

\* ------------------------------------------------------------------------
\* The functions on their own: an argument from a bounded set, one call
\* ------------------------------------------------------------------------

\* word length
MaxWordLen == 3

\* letters of the generated words: vowels, "l" and another consonant
WordLetters == {"a", "e", "l", "b"}

Words ==
  SeqsUpTo(WordLetters, MaxWordLen)
    \cup { <<"t","a","b","l","e">>, <<"q","u","e","u","e">>, <<"a","p","p","l","e">>,
           <<"Q","u","e","u","e">>, <<"d","o","n","'","t">>, <<"'">> }

WordInit == SysInit /\ arg \in Words /\ ret = <<>> /\ returned = FALSE

CountWord ==
  /\ ~returned
  /\ ret' = count_syllables_in_word(arg)
  /\ returned' = TRUE
  /\ UNCHANGED <<arg, sysvars>>

SpecWord == WordInit /\ [][CountWord]_vars

\* raw lines per lyrics
MaxLines == 5

\* " o o o o o ": five syllables, whitespace around
Line5Padded == <<SP,"o",SP,"o",SP,"o",SP,"o",SP,"o",SP>>

\* "(la)": a stage cue
LineCueShort == <<"(","l","a",")">>

LinePool == {Line5, Line7, Line5Padded, LineCueShort}

\* the newline conventions between line i and line i+1
NewlineStyles ==
  { [i \in 1..MaxLines |-> <<LF>>],
    [i \in 1..MaxLines |-> <<CR, LF>>],
    [i \in 1..MaxLines |-> IF i % 2 = 1 THEN <<CR>> ELSE <<CR, LF>>] }

\* the lyrics text with the given lines and newlines
RECURSIVE Assemble(_, _, _)
Assemble(lines, style, i) ==
  IF i > Len(lines) THEN <<>>
  ELSE IF i = Len(lines) THEN lines[i]
  ELSE lines[i] \o style[i] \o Assemble(lines, style, i+1)

DetectArgs ==
  { [title |-> <<"T">>, artist |-> <<"A">>, lines |-> ls, style |-> st] :
      ls \in SeqsUpTo(LinePool, MaxLines), st \in NewlineStyles }

DetectInit == SysInit /\ arg \in DetectArgs /\ ret = <<>> /\ returned = FALSE

Detect ==
  /\ ~returned
  /\ ret' = find_haikus_in_lyrics(arg.title, arg.artist, Assemble(arg.lines, arg.style, 1))
  /\ returned' = TRUE
  /\ UNCHANGED <<arg, sysvars>>

SpecDetect == DetectInit /\ [][Detect]_vars

\* whitespace added around a field
MaxPad == 1

Pad(n) == [i \in 1..n |-> SP]

Pads == {Pad(n) : n \in 1..MaxPad}

\* a field as written, and in another case with whitespace on both sides
BothSides(lower, other) == {lower} \cup {pad \o other \o pad : pad \in Pads}

\* a field as written, with whitespace before it, with whitespace after it
EitherSide(v) == {v} \cup {pad \o v : pad \in Pads} \cup {v \o pad : pad \in Pads}

HaikuPool ==
  { Haiku(t, a, <<l1, l2, l3>>, <<5, 7, 5>>) :
      t \in BothSides(<<"a","b">>, <<"A","b">>),
      a \in BothSides(<<"c">>, <<"C">>),
      l1 \in EitherSide(<<"x">>),
      l2 \in BothSides(<<"y">>, <<"Y">>),
      l3 \in EitherSide(<<"z">>) }

\* the first haiku of a pair: fields without whitespace around them
PlainHaikus ==
  { Haiku(t, a, <<<<"x">>, l2, <<"z">>>>, <<5, 7, 5>>) :
      t \in {<<"a","b">>, <<"a">>}, a \in {<<"c">>, <<"b","c">>},
      l2 \in {<<"y">>, <<"Y">>} }

SigInit ==
  SysInit /\ arg \in PlainHaikus \X HaikuPool /\ ret = <<>> /\ returned = FALSE

Sign ==
  /\ ~returned
  /\ ret' = <<signature(arg[1]), signature(arg[2])>>
  /\ returned' = TRUE
  /\ UNCHANGED <<arg, sysvars>>

SpecSig == SigInit /\ [][Sign]_vars

\* length of title and of artist
MaxField == 2

Rep(c, n) == [i \in 1..n |-> c]

\* lengths of the third line: short, around the limit, past it
TailLens ==
  {1} \cup ((TweetLimit - 13 - 2 * MaxField)..(TweetLimit - 3)) \cup {TweetLimit + 10}

ComposeArgs ==
  { [h |-> Haiku(Rep("t", k), Rep("r", m), <<l1, <<"y">>, Rep("z", n)>>, <<5, 7, 5>>),
     include_attribution |-> b] :
      k \in 0..MaxField, m \in 0..MaxField, l1 \in {<<"x">>, <<SP, "x">>},
      n \in TailLens, b \in BOOLEAN }

ComposeInit == SysInit /\ arg \in ComposeArgs /\ ret = <<>> /\ returned = FALSE

Compose ==
  /\ ~returned
  /\ ret' = compose_tweet_text(arg.h, arg.include_attribution)
  /\ returned' = TRUE
  /\ UNCHANGED <<arg, sysvars>>

SpecCompose == ComposeInit /\ [][Compose]_vars

\* ------------------------------------------------------------------------
\* Properties
\* ------------------------------------------------------------------------

\* the signatures in a table
Sigs(st) == {st[i].sig : i \in 1..Len(st)}

\* every haiku of hs has its signature in table st
AllStored(hs, st) ==
  LET S == Sigs(st) IN \A k \in 1..Len(hs) : signature(hs[k]) \in S

\* the step is a run of the scan command over an existing file
IsScanStep == AllIdle /\ last'.cmd = "scan"

\* C1: the table holds at most one row per signature, and a scan whose detected
\* haikus all have their signature in the table leaves the table as it was.
C1_ScanIdempotent ==
  [][ /\ \A i, j \in 1..Len(store') : store'[i].sig = store'[j].sig => i = j
      /\ (IsScanStep /\ AllStored(last'.found, store)) => store' = store ]_vars

\* a scan found haikus, all stored already, after one of them was used
C1_Witness ==
  /\ last.cmd = "scan"
  /\ Len(last.found) > 0
  /\ ~last.changed
  /\ \E i \in 1..Len(store) : store[i].tweeted_at # NULL

\* row r with its tweeted_at column left out
OtherColumns(r) == [r EXCEPT !.tweeted_at = NULL]

\* invocation p's create_tweet for its haiku succeeded
Published(p) ==
  signature(sel[p]) \in DOMAIN posted /\ posted[signature(sel[p])] >= 1

\* C2: no row is deleted; no column but tweeted_at changes; a new row has
\* tweeted_at NULL; a set tweeted_at stays as it is; tweeted_at goes from NULL to
\* set only in the mark step of a tweet invocation that selected that row and
\* either ran dry or had its publish succeed.
C2_UsedAtSetOnce ==
  [][ /\ Len(store') >= Len(store)
      /\ \A i \in 1..Len(store) :
           /\ OtherColumns(store'[i]) = OtherColumns(store[i])
           /\ store[i].tweeted_at # NULL => store'[i].tweeted_at = store[i].tweeted_at
           /\ (store[i].tweeted_at = NULL /\ store'[i].tweeted_at # NULL) =>
                \E p \in Procs :
                  /\ pc[p] = "marking" /\ pc'[p] = "done"
                  /\ store[i].sig = signature(sel[p])
                  /\ dry[p] \/ Published(p)
      /\ \A i \in (Len(store) + 1)..Len(store') : store'[i].tweeted_at = NULL ]_vars

\* a rescan found a published haiku again, and its row is still marked
C2_Witness ==
  /\ last.cmd = "scan"
  /\ \E k \in 1..Len(last.found) : \E i \in 1..Len(store) :
       /\ store[i].sig = signature(last.found[k])
       /\ store[i].tweeted_at # NULL
       /\ store[i].sig \in DOMAIN posted

\* the content lines of the lyrics: the raw lines trimmed, noise lines left out
DetectContent(a) ==
  LET raw == [i \in 1..Len(a.lines) |-> Strip(a.lines[i])]
  IN  Pick(raw, {i \in 1..Len(raw) : ~is_noise_line(raw[i])})

\* the window starts whose three content lines count 5, 7, 5
Matching(c) ==
  {i \in 1..(Len(c) - 2) :
     <<count_syllables_in_line(c[i]), count_syllables_in_line(c[i+1]),
       count_syllables_in_line(c[i+2])>> = <<5, 7, 5>>}

\* C3: detection returns, in increasing order of the window start, exactly one
\* haiku per window of three consecutive content lines counting (5,7,5), with
\* those lines and syllables (5,7,5); none for fewer than three content lines.
C3_DetectWindows ==
  returned =>
    LET c == DetectContent(arg)
        M == Matching(c)
    IN  /\ Len(ret) = Cardinality(M)
        /\ \A k \in 1..Len(ret) :
             ret[k] = Haiku(arg.title, arg.artist,
                            SubSeq(c, Kth(M, k), Kth(M, k) + 2), <<5, 7, 5>>)

\* two haikus from overlapping windows: the last line of one opens the other
C3_Witness ==
  /\ returned
  /\ Len(ret) = 2
  /\ ret[1].lines[3] = ret[2].lines[1]

\* s without its leading whitespace
LStrip(s) ==
  IF \A i \in 1..Len(s) : s[i] \in Whitespace THEN <<>>
  ELSE SubSeq(s, CHOOSE i \in 1..Len(s) :
                   s[i] \notin Whitespace /\ \A j \in 1..(i-1) : s[j] \in Whitespace,
              Len(s))

\* s without its trailing whitespace
RStrip(s) ==
  IF \A i \in 1..Len(s) : s[i] \in Whitespace THEN <<>>
  ELSE SubSeq(s, 1, CHOOSE i \in 1..Len(s) :
                      s[i] \notin Whitespace /\ \A j \in (i+1)..Len(s) : s[j] \in Whitespace)

\* a and b differ at most in letter case and in leading or trailing whitespace
SameField(a, b) == Lower(Strip(a)) = Lower(Strip(b))

\* g and h differ at most in case and leading/trailing whitespace of title,
\* artist and each of the three lines
SameUpToCaseAndSpace(g, h) ==
  /\ SameField(g.title, h.title)
  /\ SameField(g.artist, h.artist)
  /\ \A k \in 1..3 : SameField(g.lines[k], h.lines[k])

\* g and h differ at most in case, in leading/trailing whitespace of title and
\* artist, in whitespace before the first line and after the third
SameUpToCaseAndOuterSpace(g, h) ==
  /\ SameField(g.title, h.title)
  /\ SameField(g.artist, h.artist)
  /\ Lower(LStrip(g.lines[1])) = Lower(LStrip(h.lines[1]))
  /\ Lower(g.lines[2]) = Lower(h.lines[2])
  /\ Lower(RStrip(g.lines[3])) = Lower(RStrip(h.lines[3]))

ChosenText(h, include_attribution, mark) ==
  LET body == Strip(JoinLines(h.lines))
      titled == body \o mark \o h.title
      full == titled \o <<SP, "b", "y", SP>> \o h.artist
  IN  IF include_attribution /\ Len(full) <= TweetLimit THEN full
      ELSE IF include_attribution /\ Len(titled) <= TweetLimit THEN titled
      ELSE Prefix(body, TweetLimit)

\* C5 as claimed: the text is at most 280 characters and is body + two newlines
\* + em-dash + title + " by " + artist if attribution is requested and that fits,
\* else body + two newlines + em-dash + title if requested and that fits, else
\* the first 280 characters of the body.
C5_ComposeText ==
  returned =>
    /\ Len(ret) <= TweetLimit
    /\ ret = ChosenText(arg.h, arg.include_attribution, <<LF, LF, EmDash>>)

\* C5 amended: the same, the em-dash followed by a space in both attributions.
C5_ComposeTextSpaced ==
  returned =>
    /\ Len(ret) <= TweetLimit
    /\ ret = ChosenText(arg.h, arg.include_attribution, <<LF, LF, EmDash, SP>>)

\* the full attribution does not fit by one character and the title-only form
\* is returned
C5_Witness ==
  /\ returned
  /\ arg.include_attribution
  /\ Len(arg.h.artist) > 0
  /\ Len(Strip(JoinLines(arg.h.lines))) + Len(arg.h.title) + Len(arg.h.artist) + 8
       = TweetLimit + 1
  /\ Len(ret) = Len(Strip(JoinLines(arg.h.lines))) + Len(arg.h.title) + 4

\* C6: a tweet invocation that is not a dry run and lacks a credential never
\* has a publish call in flight (it fails before any network attempt).
C6_NoPublishWithoutCredentials ==
  \A p \in Procs : pc[p] = "posting" => req[p].credentials

\* C7: when the publish call of an invocation fails, the invocation ends in the
\* error, that step and every later step of the invocation leave the table and
\* the published tweets as they were, and the selected haiku's row is still
\* among the unused rows.
C7_PublishFailureKeepsStore ==
  [][ \A p \in Procs :
        /\ (pc[p] = "posting" /\ pc'[p] # "posting") =>
             /\ pc'[p] \in {"marking", "transport_error"}
             /\ pc'[p] = "transport_error" =>
                  /\ store' = store
                  /\ posted' = posted
                  /\ \E i \in UnusedRows(store') : store'[i].sig = signature(sel[p])
        /\ pc[p] = "transport_error" =>
             /\ store' = store
             /\ posted' = posted
             /\ pc'[p] \in {"transport_error", "idle"} ]_vars

\* an invocation ended in the publish error with another haiku already used
C7_Witness ==
  \E p \in Procs :
    /\ pc[p] = "transport_error"
    /\ UnusedRows(store) # {}
    /\ \E i \in 1..Len(store) : store[i].tweeted_at # NULL

\* C8: count_syllables_in_word is 2 for "table", 1 for "queue", 0 for "" and 2
\* for "apple".
C8_CountWordExamples ==
  returned =>
    /\ arg = <<"t","a","b","l","e">> => ret = 2
    /\ arg = <<"q","u","e","u","e">> => ret = 1
    /\ arg = <<>> => ret = 0
    /\ arg = <<"a","p","p","l","e">> => ret = 2

\* title, artist and joined lines, each trimmed and case-folded
NormKey(h) ==
  <<Lower(Strip(h.title)), Lower(Strip(h.artist)), Lower(Strip(JoinLines(h.lines)))>>

\* C9: after a scan, every haiku it detected has a row with the same normalized
\* title, artist and lines (a detected haiku is skipped only for such a row).
C9_DedupKeepsDistinct ==
  last.cmd = "scan" =>
    \A k \in 1..Len(last.found) : \E i \in 1..Len(store) :
      NormKey(RowHaiku(store[i])) = NormKey(last.found[k])

\* C10: no haiku is published more than once.
C10_PublishedOnce ==
  \A s \in DOMAIN posted : posted[s] <= 1

=============================================================================
